---------------------------- MODULE Spec2Model ----------------------------
(***************************************************************************)
(* Model of OrangutanBuzzer.cpp: the timer1 PWM buzzer driver of the       *)
(* Orangutan LV-168.  One main control flow (init, playFrequency,          *)
(* playNote) and one asynchronous interrupt source, the timer1 overflow    *)
(* handler ISR(TIMER1_OVF_vect).                                           *)
(*                                                                         *)
(* Target widths (avr-gcc): unsigned char 8 bits, unsigned int 16 bits,    *)
(* long 32 bits.                                                           *)
(***************************************************************************)
EXTENDS Integers, Naturals, FiniteSets, Sequences, TLC

\* ------------------------------------------------------------------------
\* Program constants
\* ------------------------------------------------------------------------
F_CPU == 20000000

TIMER1_OFF == 0

TIMER1_CLK_1 == 1

TIMER1_CLK_8 == 2

\* "The most significant bit of freq is the divide by 10 bit" (1 << 15).
DIV_BY_10 == 32768

\* "if note = 255, freq = 1 kHz and buzzer is silent (silent note)"
SILENT_NOTE == 255

\* 1 << PB2, the buzzer pin's bit of DDRB
PB2_MASK == 4

\* 1 << TOIE1, the overflow interrupt enable bit of TIMSK1
TOIE1_MASK == 1

\* play's note duration (line 330) and volume (line 386)
PLAY_DURATION == 200

PLAY_VOLUME == 15

\* ------------------------------------------------------------------------
\* Bounds of the model
\* ------------------------------------------------------------------------
\* Durations (ms) the interleaving specification passes to a play call.
MaxDuration == 2

\* Handler executions followed after the countdown has wrapped past zero.
MaxIdleTicks == 2

\* Every FreqStride-th frequency code is tried by the volume specification.
FreqStride == 257

\* ------------------------------------------------------------------------
\* Fixed-width arithmetic
\* ------------------------------------------------------------------------
U8(x) == x % 256

U16(x) == x % 65536

\* (r & 0xF8): clear the three clock select bits of an 8-bit register value
ClearClockSelect(r) == r - (r % 8)

\* the clock select bits CS12:0 of TCCR1B
ClockSelectBits(r) == r % 8

\* (r | mask) and (r & ~mask) for a one-bit mask
SetBit(r, mask) == IF (r \div mask) % 2 = 1 THEN r ELSE r + mask

ClearBit(r, mask) == IF (r \div mask) % 2 = 1 THEN r - mask ELSE r

\* x >> n on a 16-bit value, 0 <= n < 16
ShiftRight(x, n) == x \div (2 ^ n)

\* ------------------------------------------------------------------------
\* playFrequency: the local computation of lines 141-185
\* ------------------------------------------------------------------------
\* freq & DIV_BY_10
TenthsFlag(f) == f >= DIV_BY_10

Multiplier(f) == IF TenthsFlag(f) THEN 10 ELSE 1

\* freq &= ~DIV_BY_10
Unflagged(f) == IF TenthsFlag(f) THEN f - DIV_BY_10 ELSE f

\* freq > 400 * ((unsigned int)multiplier): the prescaler-1 branch
FastClock(f) == Unflagged(f) > 400 * Multiplier(f)

\* unsigned char val = 40 * multiplier
MinFreqVal(f) == U8(40 * Multiplier(f))

\* freq after the clamp of the branch taken (lines 152-153, 163-165)
ClampedFreq(f) ==
    LET g == Unflagged(f)
    IN  IF FastClock(f)
        THEN IF g > 10000 THEN 10000 ELSE g
        ELSE IF g < MinFreqVal(f) THEN MinFreqVal(f) ELSE g

\* the unsigned long quotient of lines 155, 169, 171
TopQuotient(f) ==
    IF FastClock(f)
    THEN 20000000 \div ClampedFreq(f)
    ELSE IF Multiplier(f) = 10
         THEN 25000000 \div ClampedFreq(f)
         ELSE 2500000 \div ClampedFreq(f)

\* newOCR1A: the quotient cast to unsigned int
CounterTop(f) == U16(TopQuotient(f))

\* the clock select or-ed into newTCCR1B (lines 158, 174)
ClockSelect(f) == IF FastClock(f) THEN TIMER1_CLK_1 ELSE TIMER1_CLK_8

\* freq after "if (multiplier == 10) freq = (freq + 5) / 10" (lines 179-180)
TimeoutFreq(f) ==
    IF Multiplier(f) = 10
    THEN U16(ClampedFreq(f) + 5) \div 10
    ELSE ClampedFreq(f)

\* timeout (lines 182-185): the product and the quotient are computed in
\* long (32 bits), the result is cast to unsigned int.  duration <= 65535
\* and the clamped freq <= 10000, so the product stays below 2^31.
TickTimeout(f, d) ==
    IF TimeoutFreq(f) = 1000
    THEN d
    ELSE U16((d * TimeoutFreq(f)) \div 1000)

\* Mutant of ClampVolume: the clamp one too high, "if (volume > 16)
\* volume = 16".
ClampVolume_To16(v) == IF v > 16 THEN 16 ELSE v

\* volume after "if (volume > 15) volume = 15"
ClampVolume(v) == IF v > 15 THEN 15 ELSE v

\* ------------------------------------------------------------------------
\* playNote: note number -> frequency code (lines 244-312)
\* ------------------------------------------------------------------------
\* frequency table for the lowest 12 allowed notes, in tenths of a Hertz
NoteTable == <<412, 437, 463, 490, 519, 550, 583, 617, 654, 693, 734, 778>>

\* Mutant of OffsetNote: the clamp of the notes above 111 left out.
OffsetNote_NoUpperClamp(n) ==
    LET o == U8(n + 256 - 16)
    IN  IF n <= 16 THEN 0 ELSE o

\* offset_note after lines 245, 254-257
OffsetNote(n) ==
    LET o == U8(n + 256 - 16)
    IN  IF n <= 16 THEN 0 ELSE IF o > 95 THEN 95 ELSE o

Exponent(n) == OffsetNote(n) \div 12

\* the switch of lines 263-301
BaseFreq(n) == NoteTable[(OffsetNote(n) - Exponent(n) * 12) + 1]

\* Mutant of NoteFreq: the top octave doubled by shifting like the others,
\* so the 16-bit shift overflows.
NoteFreq_ShiftOnly(n) ==
    LET s == U16(BaseFreq(n) * (2 ^ Exponent(n)))
    IN  IF Exponent(n) > 1
        THEN U16(s + 5) \div 10
        ELSE U16(s + DIV_BY_10)

\* lines 303-312, 16-bit unsigned arithmetic
NoteFreq(n) ==
    IF Exponent(n) < 7
    THEN LET s == U16(BaseFreq(n) * (2 ^ Exponent(n)))
         IN  IF Exponent(n) > 1
             THEN U16(s + 5) \div 10
             ELSE U16(s + DIV_BY_10)
    ELSE U16(U16(BaseFreq(n) * 64) + 2) \div 5

\* Mutant of SilentCall: only the silent note is treated as silence, a zero
\* volume is not.
SilentCall_SentinelOnly(n, v) == n = SILENT_NOTE

SilentCall(n, v) == n = SILENT_NOTE \/ v = 0

\* ------------------------------------------------------------------------
\* State
\* ------------------------------------------------------------------------
VARIABLES
    pc,              \* position of the main control flow
    buzzerTimeout,   \* volatile unsigned int
    buzzerFinished,  \* volatile unsigned char
    TCCR1A, TCCR1B, TCCR1C, OCR1A, OCR1B, TIMSK1, DDRB,  \* registers
    TOV1,            \* TIFR1: the pending overflow flag
    IFlag,           \* SREG: the global interrupt enable bit
    api,             \* entry point of the current / last play call
    note, noteVolume,      \* playNote's arguments
    argFreq, argVolume,    \* playFrequency's arguments as passed
    freq, duration, volume,              \* playFrequency's parameters
    newOCR1A, newTCCR1B, timeout, sreg,  \* playFrequency's locals
    ticks,           \* handler executions since buzzerTimeout was last stored
    prevActive,      \* the play call was entered while a tone was active
    entryIFlag,      \* the I bit when the play call was entered
    ret,             \* where the play call returns to
    sequence,        \* play's argument from sequence[i] on
    octave,          \* play's local
    polled           \* the value isPlaying() returned last

regs == <<TCCR1A, TCCR1B, TCCR1C, OCR1A, OCR1B, TIMSK1, DDRB>>

shared == <<buzzerTimeout, buzzerFinished>>

args == <<api, note, noteVolume, argFreq, argVolume, prevActive, entryIFlag>>

locals == <<freq, duration, volume, newOCR1A, newTCCR1B, timeout, sreg>>

caller == <<ret, sequence, octave, polled>>

vars == <<pc, buzzerTimeout, buzzerFinished, TCCR1A, TCCR1B, TCCR1C, OCR1A,
          OCR1B, TIMSK1, DDRB, TOV1, IFlag, api, note, noteVolume, argFreq,
          argVolume, freq, duration, volume, newOCR1A, newTCCR1B, timeout,
          sreg, ticks, prevActive, entryIFlag, ret, sequence, octave,
          polled>>

\* Reset state of the ATmega168: I/O registers and .bss are zero, the
\* I bit of SREG is clear.
Reset ==
    /\ pc = "idle"
    /\ buzzerTimeout = 0
    /\ buzzerFinished = 0
    /\ TCCR1A = 0 /\ TCCR1B = 0 /\ TCCR1C = 0
    /\ OCR1A = 0 /\ OCR1B = 0 /\ TIMSK1 = 0 /\ DDRB = 0
    /\ TOV1 = 0
    /\ IFlag = 0
    /\ api = "none"
    /\ note = 0 /\ noteVolume = 0 /\ argFreq = 0 /\ argVolume = 0
    /\ freq = 0 /\ duration = 0 /\ volume = 0
    /\ newOCR1A = 0 /\ newTCCR1B = 0 /\ timeout = 0 /\ sreg = 0
    /\ ticks = 0
    /\ prevActive = FALSE
    /\ entryIFlag = 0
    /\ ret = "idle"
    /\ sequence = <<>>
    /\ octave = 0
    /\ polled = 0

Init == Reset

\* ------------------------------------------------------------------------
\* Hardware: timer overflow and the overflow interrupt handler
\* ------------------------------------------------------------------------
\* The counter reaches TOP while the timer clock runs: TOV1 is set.
\* TCNT1 itself is not modelled; when the overflow comes is left open.
Overflow ==
    /\ ClockSelectBits(TCCR1B) # TIMER1_OFF
    /\ TOV1 = 0
    /\ TOV1' = 1
    /\ UNCHANGED <<caller, pc, shared, regs, IFlag, args, locals, ticks>>

\* Mutant of Terminal: the countdown tested for having gone below zero,
\* which an unsigned int never does.
Terminal_BelowZero == buzzerTimeout < 0

\* Mutant of Terminal: the test one tick early as well,
\* buzzerTimeout-- <= 1.
Terminal_AtMostOne == buzzerTimeout <= 1

\* Mutant of Terminal: the test made after the decrement,
\* --buzzerTimeout == 0.
Terminal_PreDecrement == buzzerTimeout = 1

\* The handler's test and post-decrement: buzzerTimeout-- == 0
Terminal == buzzerTimeout = 0

\* The handler is dispatched when the overflow is pending, enabled in TIMSK1
\* and interrupts are globally enabled; the instruction that follows one
\* that sets the I bit (here the sei of line 202 after line 201) executes
\* before a pending interrupt is taken.  It runs with interrupts disabled,
\* so its body is one step of the main control flow's view.
Dispatchable ==
    /\ IFlag = 1
    /\ TOV1 = 1
    /\ (TIMSK1 \div TOIE1_MASK) % 2 = 1
    /\ pc # "pf202"
    /\ (buzzerTimeout < DIV_BY_10 \/ buzzerTimeout >= 65536 - MaxIdleTicks)

TIMER1_OVF_vect ==
    /\ Dispatchable
    /\ TOV1' = 0
    /\ buzzerTimeout' = U16(buzzerTimeout + 65535)
    /\ IF Terminal
       THEN /\ TCCR1B' = ClearClockSelect(TCCR1B) + TIMER1_CLK_1
            /\ OCR1A' = F_CPU \div 1000
            /\ OCR1B' = 0
            /\ DDRB' = ClearBit(DDRB, PB2_MASK)
            /\ buzzerFinished' = 1
       ELSE UNCHANGED <<TCCR1B, OCR1A, OCR1B, DDRB, buzzerFinished>>
    /\ ticks' = ticks + 1
    /\ UNCHANGED <<caller, pc, TCCR1A, TCCR1C, TIMSK1, IFlag, args, locals>>

\* ------------------------------------------------------------------------
\* The application's own cli() / sei() between calls
\* ------------------------------------------------------------------------
MainCli ==
    /\ pc = "idle"
    /\ IFlag = 1
    /\ IFlag' = 0
    /\ UNCHANGED <<caller, pc, shared, regs, TOV1, args, locals, ticks>>

MainSei ==
    /\ pc = "idle"
    /\ IFlag = 0
    /\ IFlag' = 1
    /\ UNCHANGED <<caller, pc, shared, regs, TOV1, args, locals, ticks>>

\* ------------------------------------------------------------------------
\* OrangutanBuzzer::init, one step per register write
\* ------------------------------------------------------------------------
CallInit ==
    /\ pc = "idle"
    /\ pc' = "init86"
    /\ UNCHANGED <<caller, shared, regs, TOV1, IFlag, args, locals, ticks>>

init86 ==
    /\ pc = "init86"
    /\ DDRB' = ClearBit(DDRB, PB2_MASK)
    /\ pc' = "init88"
    /\ UNCHANGED <<caller, shared, TCCR1A, TCCR1B, TCCR1C, OCR1A, OCR1B,
                   TIMSK1, TOV1, IFlag, args, locals, ticks>>

init88 ==
    /\ pc = "init88"
    /\ TCCR1A' = 35
    /\ pc' = "init93"
    /\ UNCHANGED <<caller, shared, TCCR1B, TCCR1C, OCR1A, OCR1B, TIMSK1, DDRB,
                   TOV1, IFlag, args, locals, ticks>>

init93 ==
    /\ pc = "init93"
    /\ TCCR1B' = 25
    /\ pc' = "init101"
    /\ UNCHANGED <<caller, shared, TCCR1A, TCCR1C, OCR1A, OCR1B, TIMSK1, DDRB,
                   TOV1, IFlag, args, locals, ticks>>

init101 ==
    /\ pc = "init101"
    /\ TCCR1C' = 0
    /\ pc' = "init112"
    /\ UNCHANGED <<caller, shared, TCCR1A, TCCR1B, OCR1A, OCR1B, TIMSK1, DDRB,
                   TOV1, IFlag, args, locals, ticks>>

init112 ==
    /\ pc = "init112"
    /\ OCR1A' = F_CPU \div 1000
    /\ pc' = "init113"
    /\ UNCHANGED <<caller, shared, TCCR1A, TCCR1B, TCCR1C, OCR1B, TIMSK1, DDRB,
                   TOV1, IFlag, args, locals, ticks>>

init113 ==
    /\ pc = "init113"
    /\ OCR1B' = 0
    /\ pc' = "init116"
    /\ UNCHANGED <<caller, shared, TCCR1A, TCCR1B, TCCR1C, OCR1A, TIMSK1, DDRB,
                   TOV1, IFlag, args, locals, ticks>>

\* TCNT1 = 0 (the unmodelled counter) and TIFR1 = 0xFF: writing one to
\* TOV1 clears the pending overflow.
init116 ==
    /\ pc = "init116"
    /\ TOV1' = 0
    /\ pc' = "init117"
    /\ UNCHANGED <<caller, shared, regs, IFlag, args, locals, ticks>>

\* Mutant of init117: init also marks the buzzer as finished.
init117_Finishes ==
    /\ pc = "init117"
    /\ TIMSK1' = TOIE1_MASK
    /\ buzzerFinished' = 1
    /\ pc' = "idle"
    /\ UNCHANGED <<caller, buzzerTimeout, TCCR1A, TCCR1B, TCCR1C, OCR1A, OCR1B,
                   DDRB, TOV1, IFlag, args, locals, ticks>>

init117 ==
    /\ pc = "init117"
    /\ TIMSK1' = TOIE1_MASK
    /\ pc' = "idle"
    /\ UNCHANGED <<caller, shared, TCCR1A, TCCR1B, TCCR1C, OCR1A, OCR1B, DDRB,
                   TOV1, IFlag, args, locals, ticks>>

InitSteps ==
    \/ init86 \/ init88 \/ init93 \/ init101
    \/ init112 \/ init113 \/ init116 \/ init117

\* ------------------------------------------------------------------------
\* Entering playFrequency / playNote
\* ------------------------------------------------------------------------
\* A tone is active when an earlier play call has not been finished yet.
ToneActive == api # "none" /\ buzzerFinished = 0

\* The parameters are set; the locals are not initialised yet and none is
\* read before it is assigned.
EnterPlayFrequency(f, d, v) ==
    /\ freq' = f
    /\ duration' = d
    /\ volume' = v
    /\ argFreq' = f
    /\ argVolume' = v
    /\ newOCR1A' = 0 /\ newTCCR1B' = 0 /\ timeout' = 0 /\ sreg' = 0
    /\ pc' = "pf139"

CallPlayFrequency(f, d, v) ==
    /\ pc = "idle"
    /\ EnterPlayFrequency(f, d, v)
    /\ api' = "playFrequency"
    /\ note' = 0 /\ noteVolume' = 0
    /\ prevActive' = ToneActive
    /\ entryIFlag' = IFlag
    /\ ret' = "idle"
    /\ UNCHANGED <<sequence, octave, polled, shared, regs, TOV1, IFlag, ticks>>

\* The arguments are set; playFrequency's parameters and locals do not
\* exist yet.
EnterPlayNote(n, d, v) ==
    /\ api' = "playNote"
    /\ note' = n
    /\ noteVolume' = v
    /\ duration' = d
    /\ prevActive' = ToneActive
    /\ entryIFlag' = IFlag
    /\ freq' = 0 /\ volume' = 0 /\ argFreq' = 0 /\ argVolume' = 0
    /\ newOCR1A' = 0 /\ newTCCR1B' = 0 /\ timeout' = 0 /\ sreg' = 0
    /\ pc' = "pn244"
    /\ UNCHANGED <<shared, regs, TOV1, IFlag, ticks>>

CallPlayNote(n, d, v) ==
    /\ pc = "idle"
    /\ EnterPlayNote(n, d, v)
    /\ ret' = "idle"
    /\ UNCHANGED <<sequence, octave, polled>>

\* playNote's body up to its call of playFrequency: locals only.
pn244 ==
    /\ pc = "pn244"
    /\ IF SilentCall(note, noteVolume)
       THEN EnterPlayFrequency(1000, duration, 0)
       ELSE EnterPlayFrequency(NoteFreq(note), duration,
                               ClampVolume(noteVolume))
    /\ UNCHANGED <<caller, shared, regs, TOV1, IFlag, api, note, noteVolume,
                   prevActive, entryIFlag, ticks>>

\* ------------------------------------------------------------------------
\* OrangutanBuzzer::playFrequency
\* ------------------------------------------------------------------------
pf139 ==
    /\ pc = "pf139"
    /\ buzzerFinished' = 0
    /\ pc' = "pf141"
    /\ UNCHANGED <<caller, buzzerTimeout, regs, TOV1, IFlag, args, locals,
                   ticks>>

\* Lines 141-185.  Only locals are written; the one shared read is
\* TCCR1B & 0xF8 (line 147), bits the handler never changes.
pf141 ==
    /\ pc = "pf141"
    /\ newTCCR1B' = ClearClockSelect(TCCR1B) + ClockSelect(freq)
    /\ newOCR1A' = CounterTop(freq)
    /\ timeout' = TickTimeout(freq, duration)
    /\ freq' = TimeoutFreq(freq)
    /\ pc' = "pf187"
    /\ UNCHANGED <<caller, shared, regs, TOV1, IFlag, args, duration, volume,
                   sreg, ticks>>

\* Mutant of pf187: the volume test inverted.
pf187_Inverted ==
    /\ pc = "pf187"
    /\ DDRB' = IF volume # 0
               THEN ClearBit(DDRB, PB2_MASK)
               ELSE SetBit(DDRB, PB2_MASK)
    /\ volume' = ClampVolume(volume)
    /\ pc' = "pf195"
    /\ UNCHANGED <<caller, shared, TCCR1A, TCCR1B, TCCR1C, OCR1A, OCR1B,
                   TIMSK1, TOV1, IFlag, args, freq, duration, newOCR1A,
                   newTCCR1B, timeout, sreg, ticks>>

\* Lines 187-193: the pin direction, then the volume clamp.
pf187 ==
    /\ pc = "pf187"
    /\ DDRB' = IF volume = 0
               THEN ClearBit(DDRB, PB2_MASK)
               ELSE SetBit(DDRB, PB2_MASK)
    /\ volume' = ClampVolume(volume)
    /\ pc' = "pf195"
    /\ UNCHANGED <<caller, shared, TCCR1A, TCCR1B, TCCR1C, OCR1A, OCR1B,
                   TIMSK1, TOV1, IFlag, args, freq, duration, newOCR1A,
                   newTCCR1B, timeout, sreg, ticks>>

pf195 ==
    /\ pc = "pf195"
    /\ sreg' = IFlag
    /\ pc' = "pf196"
    /\ UNCHANGED <<caller, shared, regs, TOV1, IFlag, args, freq, duration,
                   volume, newOCR1A, newTCCR1B, timeout, ticks>>

pf196 ==
    /\ pc = "pf196"
    /\ IFlag' = 0
    /\ pc' = "pf197"
    /\ UNCHANGED <<caller, shared, regs, TOV1, args, locals, ticks>>

pf197 ==
    /\ pc = "pf197"
    /\ TCCR1B' = U8(newTCCR1B)
    /\ pc' = "pf198"
    /\ UNCHANGED <<caller, shared, TCCR1A, TCCR1C, OCR1A, OCR1B, TIMSK1, DDRB,
                   TOV1, IFlag, args, locals, ticks>>

pf198 ==
    /\ pc = "pf198"
    /\ OCR1A' = newOCR1A
    /\ pc' = "pf199"
    /\ UNCHANGED <<caller, shared, TCCR1A, TCCR1B, TCCR1C, OCR1B, TIMSK1, DDRB,
                   TOV1, IFlag, args, locals, ticks>>

\* OCR1A >> (16 - volume).  With volume 0 the shift count is 16, the width
\* of the promoted operand: undefined in C.  The outcomes kept are all bits
\* shifted out (a shift loop) and the count taken modulo the width.
DutyCycles(top, v) ==
    IF v = 0 THEN {0, top} ELSE {ShiftRight(top, 16 - v)}

pf199 ==
    /\ pc = "pf199"
    /\ OCR1B' \in DutyCycles(OCR1A, volume)
    /\ pc' = "pf200"
    /\ UNCHANGED <<caller, shared, TCCR1A, TCCR1B, TCCR1C, OCR1A, TIMSK1, DDRB,
                   TOV1, IFlag, args, locals, ticks>>

pf200 ==
    /\ pc = "pf200"
    /\ buzzerTimeout' = timeout
    /\ ticks' = 0
    /\ pc' = "pf201"
    /\ UNCHANGED <<caller, buzzerFinished, regs, TOV1, IFlag, args, locals>>

pf201 ==
    /\ pc = "pf201"
    /\ IFlag' = sreg
    /\ pc' = "pf202"
    /\ UNCHANGED <<caller, shared, regs, TOV1, args, locals, ticks>>

\* sei() and the return
pf202 ==
    /\ pc = "pf202"
    /\ IFlag' = 1
    /\ pc' = ret
    /\ UNCHANGED <<caller, shared, regs, TOV1, args, locals, ticks>>

PlaySteps ==
    \/ pn244 \/ pf139 \/ pf141 \/ pf187 \/ pf195 \/ pf196
    \/ pf197 \/ pf198 \/ pf199 \/ pf200 \/ pf201 \/ pf202

\* ------------------------------------------------------------------------
\* OrangutanBuzzer::isPlaying and OrangutanBuzzer::play
\* ------------------------------------------------------------------------
\* return !buzzerFinished
isPlaying == IF buzzerFinished = 0 THEN 1 ELSE 0

\* the application polls isPlaying() between calls
CallIsPlaying ==
    /\ pc = "idle"
    /\ polled' = isPlaying
    /\ UNCHANGED <<pc, shared, regs, TOV1, IFlag, args, locals, ticks, ret,
                   sequence, octave>>

\* the note letters of the switch (lines 337-358)
NoteLetters == {"c", "d", "e", "f", "g", "a", "b"}

NoteOfLetter(c) ==
    CASE c = "c" -> 0
      [] c = "d" -> 2
      [] c = "e" -> 4
      [] c = "f" -> 5
      [] c = "g" -> 7
      [] c = "a" -> 9
      [] c = "b" -> 11

\* how many times the character c is repeated at the front of s
RECURSIVE Run(_, _)
Run(s, c) ==
    IF s # <<>> /\ Head(s) = c THEN 1 + Run(Tail(s), c) ELSE 0

\* s without its first k characters
Drop(s, k) == SubSeq(s, k + 1, Len(s))

\* the note number play passes to playNote for a sequence that starts with
\* a note letter: the letter's note, one up per '+', then one down per '-',
\* in unsigned char, plus octave * 12, converted to unsigned char
PlayedNote(s, o) ==
    LET sharps == Run(Tail(s), "+")
        flats == Run(Drop(s, 1 + sharps), "-")
    IN  U8(U8(NoteOfLetter(Head(s)) + sharps + 256 - flats) + o * 12)

\* the sequence after a note, its '+' and its '-' have been consumed
AfterNote(s) ==
    LET sharps == Run(Tail(s), "+")
    IN  Drop(s, 1 + sharps + Run(Drop(s, 1 + sharps), "-"))

\* lines 328-330: i = 0, octave = 4, duration = 200
CallPlay(m) ==
    /\ pc = "idle"
    /\ sequence' = m
    /\ octave' = 4
    /\ pc' = "play332"
    /\ UNCHANGED <<shared, regs, TOV1, IFlag, args, locals, ticks, ret,
                   polled>>

\* One iteration of the loop of line 332 up to its continue, its return or
\* its call of playNote (line 386).
play332 ==
    /\ pc = "play332"
    /\ IF sequence # <<>> /\ Head(sequence) \in NoteLetters
       THEN /\ EnterPlayNote(PlayedNote(sequence, octave), PLAY_DURATION,
                             PLAY_VOLUME)
            /\ sequence' = AfterNote(sequence)
            /\ ret' = "play387"
            /\ UNCHANGED <<octave, polled>>
       ELSE /\ IF sequence # <<>> /\ Head(sequence) = ">"
               THEN /\ octave' = U8(octave + 1)
                    /\ sequence' = Tail(sequence)
                    /\ pc' = "play332"
               ELSE IF sequence # <<>> /\ Head(sequence) = "<"
               THEN /\ octave' = U8(octave + 255)
                    /\ sequence' = Tail(sequence)
                    /\ pc' = "play332"
               ELSE /\ pc' = "idle"
                    /\ UNCHANGED <<octave, sequence>>
            /\ UNCHANGED <<shared, regs, TOV1, IFlag, args, locals, ticks,
                           ret, polled>>

\* line 387: while(isPlaying());
play387 ==
    /\ pc = "play387"
    /\ polled' = isPlaying
    /\ pc' = IF isPlaying # 0 THEN "play387" ELSE "play332"
    /\ UNCHANGED <<shared, regs, TOV1, IFlag, args, locals, ticks, ret,
                   sequence, octave>>

\* ------------------------------------------------------------------------
\* The interleaving specification: any sequence of init, playFrequency and
\* playNote calls, preempted by the overflow handler wherever interrupts
\* are enabled.
\* ------------------------------------------------------------------------
FreqCodes == {440, 1000, DIV_BY_10 + 412}

Durations == 0 .. MaxDuration

Volumes == {0, 15, 16}

Notes == {16, 57, SILENT_NOTE}

Next ==
    \/ Overflow
    \/ TIMER1_OVF_vect
    \/ MainCli
    \/ MainSei
    \/ CallInit
    \/ InitSteps
    \/ CallIsPlaying
    \/ \E f \in FreqCodes, d \in Durations, v \in Volumes :
          CallPlayFrequency(f, d, v)
    \/ \E n \in Notes, d \in Durations, v \in Volumes :
          CallPlayNote(n, d, v)
    \/ PlaySteps

Spec == Init /\ [][Next]_vars

\* ------------------------------------------------------------------------
\* The single-tone specification: init, one play call with the durations of
\* the documented scenarios, and the handler's countdown after it.
\* ------------------------------------------------------------------------
ToneRequests ==
    {<<440, 1000, 15>>, <<1000, 500, 0>>}
        \cup {<<1000, d, 15>> : d \in Durations}

FirstPlayFrequency ==
    /\ api = "none"
    /\ \E r \in ToneRequests : CallPlayFrequency(r[1], r[2], r[3])

FirstPlayNote ==
    /\ api = "none"
    /\ CallPlayNote(SILENT_NOTE, 500, 15)

NextTone ==
    \/ Overflow
    \/ TIMER1_OVF_vect
    \/ MainCli
    \/ MainSei
    \/ CallInit
    \/ InitSteps
    \/ FirstPlayFrequency
    \/ FirstPlayNote
    \/ PlaySteps

SpecTone == Init /\ [][NextTone]_vars

\* ------------------------------------------------------------------------
\* The melody specification: init and one call of play, preempted by the
\* overflow handler wherever interrupts are enabled.
\* ------------------------------------------------------------------------
Melodies ==
    { <<"c", "d">>,
      <<">", "a", "+", "-", "-", "<", "b">>,
      <<"e", "!", "c">> }

FirstPlay ==
    /\ api = "none"
    /\ \E m \in Melodies : CallPlay(m)

NextMelody ==
    \/ Overflow
    \/ TIMER1_OVF_vect
    \/ MainCli
    \/ MainSei
    \/ CallInit
    \/ InitSteps
    \/ FirstPlay
    \/ play332
    \/ play387
    \/ PlaySteps

SpecMelody == Init /\ [][NextMelody]_vars

\* ------------------------------------------------------------------------
\* The calculator specification: after init(), with interrupts disabled, one
\* play call runs to its return, for every 16-bit frequency code and every
\* note number.
\* ------------------------------------------------------------------------
CalcDurations == {1, 1000, 6553}

CalcVolumes == {0, 15, 16}

InitCalc ==
    /\ buzzerTimeout = 0
    /\ buzzerFinished = 0
    /\ TCCR1A = 35 /\ TCCR1B = 25 /\ TCCR1C = 0
    /\ OCR1A = F_CPU \div 1000 /\ OCR1B = 0
    /\ TIMSK1 = TOIE1_MASK /\ DDRB = 0
    /\ TOV1 = 0
    /\ IFlag = 0
    /\ newOCR1A = 0 /\ newTCCR1B = 0 /\ timeout = 0 /\ sreg = 0
    /\ ticks = 0
    /\ prevActive = FALSE
    /\ entryIFlag = 0
    /\ ret = "idle"
    /\ sequence = <<>>
    /\ octave = 0
    /\ polled = 0
    /\ duration \in CalcDurations
    /\ \/ /\ api = "playFrequency"
          /\ pc = "pf139"
          /\ freq \in 0 .. 65535
          /\ argFreq = freq
          /\ volume = 15
          /\ argVolume = volume
          /\ note = 0 /\ noteVolume = 0
       \/ /\ api = "playNote"
          /\ pc = "pn244"
          /\ note \in 0 .. 255
          /\ noteVolume \in CalcVolumes
          /\ freq = 0 /\ argFreq = 0 /\ volume = 0 /\ argVolume = 0

NextCalc == PlaySteps

SpecCalc == InitCalc /\ [][NextCalc]_vars

\* ------------------------------------------------------------------------
\* The fair specification: the calls of the interleaving specification, with
\* the application never disabling interrupts itself.  The timer keeps
\* counting, the main control flow always executes its next statement, and
\* a pending enabled interrupt is taken within an instruction or two, so
\* the handler runs if it is dispatchable again and again.
\* ------------------------------------------------------------------------
NextLive ==
    \/ Overflow
    \/ TIMER1_OVF_vect
    \/ MainSei
    \/ CallInit
    \/ InitSteps
    \/ \E f \in FreqCodes, d \in Durations, v \in Volumes :
          CallPlayFrequency(f, d, v)
    \/ \E n \in Notes, d \in Durations, v \in Volumes :
          CallPlayNote(n, d, v)
    \/ PlaySteps

SpecLive ==
    /\ Init
    /\ [][NextLive]_vars
    /\ WF_vars(Overflow)
    /\ SF_vars(TIMER1_OVF_vect)
    /\ WF_vars(InitSteps)
    /\ WF_vars(PlaySteps)

\* ------------------------------------------------------------------------
\* The volume specification: after init(), with interrupts disabled, one
\* playFrequency call runs to its return, for every volume an unsigned char
\* can hold and a spread of frequency codes.
\* ------------------------------------------------------------------------
VolumeFreqs ==
    {0, 40, 400, 401, 440, 1000, 10000, DIV_BY_10 + 412, 65535}
        \cup {f \in 0 .. 65535 : f % FreqStride = 0}

InitVolume ==
    /\ buzzerTimeout = 0
    /\ buzzerFinished = 0
    /\ TCCR1A = 35 /\ TCCR1B = 25 /\ TCCR1C = 0
    /\ OCR1A = F_CPU \div 1000 /\ OCR1B = 0
    /\ TIMSK1 = TOIE1_MASK /\ DDRB = 0
    /\ TOV1 = 0
    /\ IFlag = 0
    /\ newOCR1A = 0 /\ newTCCR1B = 0 /\ timeout = 0 /\ sreg = 0
    /\ ticks = 0
    /\ prevActive = FALSE
    /\ entryIFlag = 0
    /\ ret = "idle"
    /\ sequence = <<>>
    /\ octave = 0
    /\ polled = 0
    /\ api = "playFrequency"
    /\ pc = "pf139"
    /\ freq \in VolumeFreqs
    /\ argFreq = freq
    /\ duration \in CalcDurations
    /\ volume \in 0 .. 255
    /\ argVolume = volume
    /\ note = 0 /\ noteVolume = 0

NextVolume ==
    \/ pf139 \/ pf141 \/ pf187 \/ pf195 \/ pf196
    \/ pf197 \/ pf198 \/ pf199 \/ pf200 \/ pf201 \/ pf202

SpecVolume == InitVolume /\ [][NextVolume]_vars

\* ------------------------------------------------------------------------
\* Observations used by the properties
\* ------------------------------------------------------------------------
PlayPCs == {"pn244", "pf139", "pf141", "pf187", "pf195", "pf196", "pf197",
            "pf198", "pf199", "pf200", "pf201", "pf202"}

\* the step on which playFrequency (and with it playNote) returns
PlayReturns == pc = "pf202" /\ pc' = "idle"

\* a play call has been made and has returned; none is in progress
Returned == api # "none" /\ pc \notin PlayPCs

PinIsInput == (DDRB \div PB2_MASK) % 2 = 0

\* divide-by-1 clock, counter-top = clock / 1000, zero duty cycle
IdleReference ==
    /\ ClockSelectBits(TCCR1B) = TIMER1_CLK_1
    /\ OCR1A = F_CPU \div 1000
    /\ OCR1B = 0

\* the last play request asked for silence
SilentRequest ==
    \/ api = "playFrequency" /\ argVolume = 0
    \/ api = "playNote" /\ SilentCall(note, noteVolume)

\* ------------------------------------------------------------------------
\* Properties
\* ------------------------------------------------------------------------

\* C1: whenever playFrequency / playNote was called with a nonzero duration,
\* the finished flag is clear (isPlaying() is true) in the state in which
\* the call returns, whatever the handler did during the call.
C1_PlayingWhenCallReturns ==
    [][(PlayReturns /\ duration # 0) => buzzerFinished' = 0]_vars

\* C3: playFrequency returns with the global interrupt enable bit equal to
\* what it was when the call was entered.
C3_InterruptStateRestored ==
    [][PlayReturns => IFlag' = entryIFlag]_vars

\* C4: in every reachable state, finished = 1 implies that the buzzer pin is
\* an input and the timer holds the idle reference configuration.
C4_FinishedImpliesIdle ==
    buzzerFinished = 1 => (PinIsInput /\ IdleReference)

\* C5: after a play call that was entered while a tone was active has
\* returned, finished = 1 only if the new tone's own countdown has reached its
\* terminal tick (more handler executions than the stored timeout).
C5_OnlyOwnCountdownFinishes ==
    (Returned /\ prevActive /\ buzzerFinished = 1) => ticks > timeout

\* C6: once a play call that asks for silence (volume 0, or playNote with
\* the silent note) has written the pin direction, the pin is an input, until
\* the next play call; and the pin only ever turns from input to output in a
\* play call with nonzero volume.
C6_SilentPinStaysInput ==
    /\ []((api # "none" /\ SilentRequest
           /\ pc \notin {"pn244", "pf139", "pf141", "pf187"}) => PinIsInput)
    /\ [][(PinIsInput /\ ~PinIsInput') => (pc = "pf187" /\ volume # 0)]_vars

\* C6 witness: a silent playFrequency call, made over a tone that was still
\* active, has returned; the handler has run since and the pin is an input.
C6_Witness ==
    /\ pc = "idle" /\ api = "playFrequency" /\ argVolume = 0 /\ argFreq = 440
    /\ prevActive /\ ticks >= 1 /\ PinIsInput

\* ------------------------------------------------------------------------
\* Tick countdown (single-tone specification)
\* ------------------------------------------------------------------------

\* C2 as stated: after the call has returned, the handler execution that is
\* number T = timeout since the timeout was stored leaves finished set and
\* the peripheral in the idle reference state with the pin an input.
C2_FinishedAfterTTicks ==
    [][(Returned /\ ticks' = ticks + 1 /\ ticks' = timeout) =>
          (buzzerFinished' = 1 /\ IdleReference' /\ PinIsInput')]_vars

\* C2 amended: after the call has returned, each of the first T handler
\* executions only decrements the countdown, leaving finished and the
\* peripheral configuration as they were, and execution T+1 sets finished
\* with the peripheral in the idle reference state and the pin an input.
C2_FinishedAtTickTPlusOne ==
    [][(Returned /\ ticks' = ticks + 1) =>
          IF ticks < timeout
          THEN /\ UNCHANGED <<buzzerFinished, regs>>
               /\ buzzerTimeout' = timeout - ticks'
          ELSE (ticks = timeout) =>
                  (buzzerFinished' = 1 /\ IdleReference' /\ PinIsInput')]_vars

\* C2 witness: playFrequency(440, 1000, 15) stored 440 ticks, the handler has
\* run 441 times since, and the buzzer is finished and idle.
C2_Witness ==
    /\ pc = "idle" /\ api = "playFrequency"
    /\ argFreq = 440 /\ duration = 1000 /\ argVolume = 15
    /\ timeout = 440 /\ ticks = 441
    /\ buzzerFinished = 1 /\ IdleReference /\ PinIsInput

\* ------------------------------------------------------------------------
\* Register computation (calculator specification)
\* ------------------------------------------------------------------------
\* the request in tenths of a Hertz
RequestedTenths(f) == IF TenthsFlag(f) THEN Unflagged(f) ELSE 10 * f

\* the prescaler the programmed clock select stands for
Prescaler == IF ClockSelectBits(TCCR1B) = TIMER1_CLK_8 THEN 8 ELSE 1

\* playFrequency was called directly and has returned
FrequencyPlayed == api = "playFrequency" /\ pc = "idle"

\* C7: for a requested frequency within 40 Hz .. 10 kHz, in either encoding,
\* the divide-by-8 clock is selected exactly when the request is <= 400 Hz,
\* divide-by-1 otherwise, and the programmed counter-top is the integer
\* quotient of clock / (prescaler * frequency).
C7_ClockAndTopMatchRequest ==
    (FrequencyPlayed /\ RequestedTenths(argFreq) \in 400 .. 100000) =>
        /\ ClockSelectBits(TCCR1B) =
              IF RequestedTenths(argFreq) <= 4000
              THEN TIMER1_CLK_8 ELSE TIMER1_CLK_1
        /\ OCR1A = ((10 * F_CPU) \div Prescaler)
                       \div RequestedTenths(argFreq)

\* C8: for every 16-bit frequency code the programmed clock select and
\* counter-top give a tone between 40 Hz and 10 kHz, and the counter-top
\* quotient fits in 16 bits.
C8_ToneWithinRangeNoTruncation ==
    FrequencyPlayed =>
        /\ 40 * OCR1A <= F_CPU \div Prescaler
        /\ F_CPU \div Prescaler <= 10000 * OCR1A
        /\ TopQuotient(argFreq) < 65536

\* the requested frequency clamped into 40 Hz .. 10 kHz, rounded to Hz
ClampedHz(f) ==
    LET t == RequestedTenths(f)
        c == IF t < 400 THEN 400 ELSE IF t > 100000 THEN 100000 ELSE t
    IN  (c + 5) \div 10

\* C9: the timeout playFrequency stores is the duration when the clamped
\* frequency is 1000 Hz and floor(duration * frequency / 1000) otherwise,
\* whenever that quotient is below 65535.
C9_TimeoutIsDurationTimesFrequency ==
    (api = "playFrequency" /\ pc = "pf201"
       /\ (duration * ClampedHz(argFreq)) \div 1000 < 65535) =>
        buzzerTimeout =
            IF ClampedHz(argFreq) = 1000
            THEN duration
            ELSE (duration * ClampedHz(argFreq)) \div 1000

\* ------------------------------------------------------------------------
\* Note frequencies (calculator specification)
\* ------------------------------------------------------------------------
\* playNote has passed a frequency code of its table to playFrequency
NotePlayed ==
    api = "playNote" /\ pc # "pn244" /\ ~SilentCall(note, noteVolume)

\* C10: for the notes 16 .. 111 the frequency passed to playFrequency, in
\* tenths of a Hertz, does not exceed that of the next note, is within 1.5 Hz
\* of half the frequency of the note 12 higher, and is 412 tenths with the
\* tenths flag for note 16 and 824 tenths with the flag for note 28.
C10_NotesMonotoneAndDoubling ==
    (NotePlayed /\ note \in 16 .. 111) =>
        /\ note < 111 =>
              RequestedTenths(argFreq) <= RequestedTenths(NoteFreq(note + 1))
        /\ note <= 99 =>
              /\ RequestedTenths(NoteFreq(note + 12))
                    <= 2 * RequestedTenths(argFreq) + 15
              /\ 2 * RequestedTenths(argFreq)
                    <= RequestedTenths(NoteFreq(note + 12)) + 15
        /\ note = 16 => argFreq = DIV_BY_10 + 412
        /\ note = 28 => argFreq = DIV_BY_10 + 824

\* C10 witness: playNote(28) has passed 824 tenths of a Hertz, flagged.
C10_Witness ==
    /\ api = "playNote" /\ pc = "idle" /\ note = 28 /\ noteVolume = 15
    /\ argFreq = DIV_BY_10 + 824

\* ------------------------------------------------------------------------
\* Silent notes
\* ------------------------------------------------------------------------

\* C11: when playNote was called with the silent note (any volume) or with
\* volume 0 (any note) and line 200 has stored the timeout, the frequency
\* passed on is 1000 Hz and the volume 0, the pin is an input, the divide-by-1
\* clock and the 1 kHz counter-top are programmed, and the stored timeout
\* equals the duration.
C11_SilentNoteIdleAndExactTimeout ==
    (api = "playNote" /\ (note = SILENT_NOTE \/ noteVolume = 0)
       /\ pc \in {"pf201", "pf202"}) =>
        /\ argFreq = 1000 /\ argVolume = 0
        /\ PinIsInput
        /\ ClockSelectBits(TCCR1B) = TIMER1_CLK_1
        /\ OCR1A = F_CPU \div 1000
        /\ timeout = duration
        /\ buzzerTimeout = duration

\* C11 witness: playNote(SILENT_NOTE, 1000, 15) is about to return with a
\* timeout of 1000 ticks, the pin an input and the 1 kHz top programmed.
C11_Witness ==
    /\ api = "playNote" /\ pc = "pf202"
    /\ note = SILENT_NOTE /\ noteVolume = 15 /\ duration = 1000
    /\ buzzerTimeout = 1000 /\ PinIsInput /\ OCR1A = F_CPU \div 1000

\* ------------------------------------------------------------------------
\* Termination of a tone (fair specification)
\* ------------------------------------------------------------------------
\* init() has completed at least once: the overflow interrupt is enabled
Initialised == (TIMSK1 \div TOIE1_MASK) % 2 = 1

\* C12: once a play call has returned on an initialised buzzer, eventually
\* finished is 1 with the pin an input and a zero duty cycle, unless another
\* play call is entered first; and finished, once 1, turns 0 only at line 139
\* of a play call.
C12_ToneEndsOnItsOwn ==
    /\ (Returned /\ Initialised) ~>
          ((buzzerFinished = 1 /\ PinIsInput /\ OCR1B = 0) \/ pc \in PlayPCs)
    /\ [][(buzzerFinished = 1 /\ buzzerFinished' = 0) => pc = "pf139"]_vars

\* C12 witness: a tone of 2 ticks was stored, the call has returned, the
\* handler has run 3 times since and the tone is finished.
C12_Witness ==
    /\ pc = "idle" /\ api # "none" /\ Initialised
    /\ timeout = 2 /\ ticks = 3 /\ buzzerFinished = 1 /\ PinIsInput

\* ------------------------------------------------------------------------
\* The finished flag
\* ------------------------------------------------------------------------

\* C13: when init() has completed and no play call has been made yet,
\* isPlaying() returns 0, the timer holds the idle reference configuration,
\* the pin is an input and TIMSK1 enables the overflow interrupt only.
C13_IdleAfterInit ==
    (Initialised /\ api = "none" /\ pc = "idle") =>
        /\ isPlaying = 0
        /\ IdleReference
        /\ PinIsInput
        /\ TIMSK1 = TOIE1_MASK

\* positions inside init
InitPCs == {"init86", "init88", "init93", "init101", "init112", "init113",
            "init116", "init117"}

\* the step is an execution of the overflow handler
HandlerRuns == ticks' = ticks + 1

\* C14: finished turns from 1 to 0 only at line 139 of a play call, and from
\* 0 to 1 only in a handler execution that finds the countdown at 0; steps of
\* init, a call of isPlaying and handler executions that find a nonzero
\* countdown leave it as it was.
C14_FinishedTransitions ==
    [][/\ (buzzerFinished = 1 /\ buzzerFinished' = 0) =>
              (pc = "pf139" /\ api \in {"playFrequency", "playNote"})
       /\ (buzzerFinished = 0 /\ buzzerFinished' = 1) =>
              (HandlerRuns /\ buzzerTimeout = 0)
       /\ (pc \in InitPCs \/ pc' \in InitPCs) =>
              (HandlerRuns \/ UNCHANGED buzzerFinished)
       /\ polled' # polled => UNCHANGED buzzerFinished
       /\ (HandlerRuns /\ buzzerTimeout # 0) => UNCHANGED buzzerFinished
      ]_vars

\* C14 witness: isPlaying() returned 1 during a tone of 1 tick, and the
\* handler has since run twice and set finished.
C14_Witness ==
    /\ pc = "idle" /\ api # "none" /\ polled = 1
    /\ timeout = 1 /\ ticks = 2 /\ buzzerFinished = 1

\* ------------------------------------------------------------------------
\* Applying a tone
\* ------------------------------------------------------------------------
\* positions after playFrequency's first write of the new tone (the pin
\* direction, lines 187-190) and before its last (the timeout, line 200)
ApplyingPCs == {"pf195", "pf196", "pf197", "pf198", "pf199", "pf200"}

\* C15: the handler is never executed while playFrequency is between its
\* write of the pin direction and its write of the timeout.
C15_ToneAppliedAtomically ==
    [][HandlerRuns => pc \notin ApplyingPCs]_vars

\* C16: when a play call with a nonzero volume and a note other than the
\* silent note returns, the pin is an output; and after the return the pin
\* turns into an input only in the handler execution that finds the stored
\* countdown used up (or at line 86 of a later init call).
C16_PinDrivenUntilTerminalTick ==
    /\ [][(PlayReturns /\ ~SilentRequest) => ~PinIsInput']_vars
    /\ [][(Returned /\ ~SilentRequest /\ ~PinIsInput /\ PinIsInput') =>
             \/ HandlerRuns /\ ticks = timeout
             \/ pc = "init86"]_vars

\* ------------------------------------------------------------------------
\* The melody player (melody specification)
\* ------------------------------------------------------------------------
\* play passes its next note to playNote (line 386)
IssuesNote == pc = "play332" /\ pc' = "pn244"

\* C17: when play issues a note after an earlier one, the handler has been
\* executed more often than the earlier note's stored timeout, i.e. the
\* earlier note's countdown has had its terminal tick.
C17_NextNoteAfterTerminalTick ==
    [][(IssuesNote /\ api = "playNote") => ticks > timeout]_vars

\* ------------------------------------------------------------------------
\* Volume (volume specification)
\* ------------------------------------------------------------------------
\* playFrequency has written all of the tone (line 200 has been executed)
ToneWritten == api = "playFrequency" /\ pc \in {"pf201", "pf202", "idle"}

\* C18: a playFrequency call with volume >= 16 leaves the clock select, the
\* counter-top, the duty cycle, the timeout and the pin direction that the
\* same call with volume 15 leaves (duty cycle = counter-top >> 1, pin an
\* output); with a volume of 1 .. 15 the duty cycle is counter-top >>
\* (16 - volume), which is no less than for the volume below and no more than
\* for the volume above.
C18_VolumeClampAndDutyCycle ==
    ToneWritten =>
        /\ argVolume >= 15 =>
              /\ ClockSelectBits(TCCR1B) = ClockSelect(argFreq)
              /\ OCR1A = CounterTop(argFreq)
              /\ OCR1B = OCR1A \div 2
              /\ buzzerTimeout = TickTimeout(argFreq, duration)
              /\ ~PinIsInput
        /\ argVolume \in 1 .. 15 =>
              /\ OCR1B = OCR1A \div (2 ^ (16 - argVolume))
              /\ argVolume > 1 => OCR1A \div (2 ^ (17 - argVolume)) <= OCR1B
              /\ argVolume < 15 => OCR1B <= OCR1A \div (2 ^ (15 - argVolume))

\* C18 witness: playFrequency(440, 1000, 255) is about to return with half
\* of the counter-top of 440 Hz as its duty cycle.
C18_Witness ==
    /\ api = "playFrequency" /\ pc = "pf202"
    /\ argFreq = 440 /\ duration = 1000 /\ argVolume = 255
    /\ OCR1A = 45454 /\ OCR1B = 22727 /\ ~PinIsInput

\* ------------------------------------------------------------------------
\* The handler's frame
\* ------------------------------------------------------------------------

\* C19: a handler execution that finds a nonzero countdown decrements it by
\* one and leaves the finished flag, every timer register and the pin
\* direction as they were, as well as the interrupted control flow's
\* position, interrupt enable bit, arguments and locals.
C19_NonTerminalTickOnlyDecrements ==
    [][(HandlerRuns /\ buzzerTimeout # 0) =>
          /\ buzzerTimeout' = U16(buzzerTimeout + 65535)
          /\ buzzerTimeout' = buzzerTimeout - 1
          /\ UNCHANGED <<buzzerFinished, regs, pc, IFlag, args, locals,
                         caller>>]_vars

\* C19 witness: of a tone of 2 ticks with the pin driven, one tick has been
\* counted and the tone is still playing.
C19_Witness ==
    /\ pc = "idle" /\ api # "none" /\ argVolume = 15
    /\ timeout = 2 /\ ticks = 1 /\ buzzerTimeout = 1
    /\ buzzerFinished = 0 /\ ~PinIsInput /\ OCR1B # 0

\* ------------------------------------------------------------------------
\* Width of the note computation (calculator specification)
\* ------------------------------------------------------------------------
\* the value of lines 303-312 computed in unbounded integers: the largest
\* intermediate value, and the result
NoteFreqWidest(n) ==
    IF Exponent(n) < 7
    THEN BaseFreq(n) * (2 ^ Exponent(n))
            + (IF Exponent(n) > 1 THEN 5 ELSE DIV_BY_10)
    ELSE BaseFreq(n) * 64 + 2

NoteFreqExact(n) ==
    IF Exponent(n) < 7
    THEN IF Exponent(n) > 1
         THEN (BaseFreq(n) * (2 ^ Exponent(n)) + 5) \div 10
         ELSE BaseFreq(n) * (2 ^ Exponent(n)) + DIV_BY_10
    ELSE (BaseFreq(n) * 64 + 2) \div 5

\* C20: for every note 0 .. 254 played with a nonzero volume, no intermediate
\* value of the frequency computation exceeds 16 bits, so the code passed to
\* playFrequency is the one exact arithmetic gives; the notes up to 16 pass
\* the code of note 16 and the notes from 112 the code of note 111; the code
\* stands for a frequency within 40 Hz .. 10 kHz and has the tenths flag
\* exactly in the two lowest octaves; and the tone programmed is within
\* 40 Hz .. 10 kHz.
C20_NoteComputationInRange ==
    (NotePlayed /\ note \in 0 .. 254) =>
        /\ NoteFreqWidest(note) < 65536
        /\ argFreq = NoteFreqExact(note)
        /\ note <= 16 => argFreq = DIV_BY_10 + 412
        /\ note >= 111 => argFreq = 9958
        /\ RequestedTenths(argFreq) \in 400 .. 100000
        /\ TenthsFlag(argFreq) <=> note <= 39
        /\ pc \in {"pf201", "pf202", "idle"} =>
              /\ 40 * OCR1A <= F_CPU \div Prescaler
              /\ F_CPU \div Prescaler <= 10000 * OCR1A

\* C20 witness: playNote(254, 1000, 16) has returned having passed the code
\* of note 111, 9958 Hz, with the 1-prescaler top of that frequency.
C20_Witness ==
    /\ api = "playNote" /\ pc = "idle" /\ note = 254 /\ noteVolume = 16
    /\ duration = 1000 /\ argFreq = 9958 /\ OCR1A = F_CPU \div 9958

=============================================================================
